---------------------------- MODULE Spec2Model ----------------------------
(***************************************************************************)
(* A model of list_branches.py: the pipeline of main() (resolve the repo,  *)
(* fetch the PR states, fetch the branch names, fan out one comparison per *)
(* branch over a thread pool, optionally fan out one ancestry check per    *)
(* branch, build the rows, sort them, print the table).                    *)
(*                                                                         *)
(* Python strings are sequences of one-character strings, Python values    *)
(* are tagged records (so that isinstance() is a test of the tag), dicts   *)
(* are sequences of <<key, value>> pairs in insertion order.               *)
(***************************************************************************)
EXTENDS Integers, Sequences, FiniteSets, TLC

(***************************************************************************)
(* Characters and strings                                                  *)
(***************************************************************************)

\* The characters the model uses, in ASCII order.
Chars ==
  << " ", ",", "-", "/",
     "0", "1", "2", "3", "4", "5", "6", "7", "8", "9", "?",
     "A", "B", "C", "D", "E", "F", "G", "H", "I", "J", "K", "L", "M",
     "N", "O", "P", "Q", "R", "S", "T", "U", "V", "W", "X", "Y", "Z",
     "a", "b", "c", "d", "e", "f", "g", "h", "i", "j", "k", "l", "m",
     "n", "o", "p", "q", "r", "s", "t", "u", "v", "w", "x", "y", "z" >>

\* The rank of a character: order-isomorphic to its code point.
Ord(c) == CHOOSE i \in 1..Len(Chars) : Chars[i] = c

Digits == <<"0", "1", "2", "3", "4", "5", "6", "7", "8", "9">>

IsDigit(c) == \E i \in 1..10 : Digits[i] = c

DigitVal(c) == (CHOOSE i \in 1..10 : Digits[i] = c) - 1

IsUpper(c) == Ord(c) >= Ord("A") /\ Ord(c) <= Ord("Z")

IsSpace(c) == c = " "

\* str.lower()
Lower(s) ==
  [i \in 1..Len(s) |->
     IF IsUpper(s[i]) THEN Chars[Ord(s[i]) + (Ord("a") - Ord("A"))] ELSE s[i]]

\* s < t for Python strings: lexicographic by code point.
RECURSIVE StrLess(_, _)
StrLess(s, t) ==
  IF t = <<>> THEN FALSE
  ELSE IF s = <<>> THEN TRUE
  ELSE IF Head(s) = Head(t) THEN StrLess(Tail(s), Tail(t))
  ELSE Ord(Head(s)) < Ord(Head(t))

\* sub in s
Contains(s, sub) ==
  \E i \in 0..(Len(s) - Len(sub)) : SubSeq(s, i + 1, i + Len(sub)) = sub

\* s.startswith(pre)
StartsWith(s, pre) == Len(s) >= Len(pre) /\ SubSeq(s, 1, Len(pre)) = pre

\* s.split(sep) for a one-character separator: empty parts are kept.
RECURSIVE SplitOn(_, _)
SplitOn(s, sep) ==
  IF \A i \in 1..Len(s) : s[i] # sep THEN <<s>>
  ELSE LET k == CHOOSE i \in 1..Len(s) :
                   s[i] = sep /\ \A j \in 1..(i - 1) : s[j] # sep
       IN <<SubSeq(s, 1, k - 1)>> \o SplitOn(SubSeq(s, k + 1, Len(s)), sep)

\* s.strip()
RECURSIVE Strip(_)
Strip(s) ==
  IF s = <<>> THEN s
  ELSE IF IsSpace(Head(s)) THEN Strip(Tail(s))
  ELSE IF IsSpace(s[Len(s)]) THEN Strip(SubSeq(s, 1, Len(s) - 1))
  ELSE s

\* s.split(): split on runs of whitespace, no empty parts.
RECURSIVE SplitWs(_)
SplitWs(s) ==
  LET t == Strip(s) IN
  IF t = <<>> THEN <<>>
  ELSE IF \A i \in 1..Len(t) : ~IsSpace(t[i]) THEN <<t>>
  ELSE LET k == CHOOSE i \in 1..Len(t) :
                   IsSpace(t[i]) /\ \A j \in 1..(i - 1) : ~IsSpace(t[j])
       IN <<SubSeq(t, 1, k - 1)>> \o SplitWs(SubSeq(t, k + 1, Len(t)))

\* Whether int(s) succeeds: an optional sign and decimal digits.
IsIntLiteral(s) ==
  LET body == IF s # <<>> /\ Head(s) = "-" THEN Tail(s) ELSE s
  IN body # <<>> /\ \A i \in 1..Len(body) : IsDigit(body[i])

RECURSIVE DigitsVal(_)
DigitsVal(s) ==
  IF s = <<>> THEN 0
  ELSE 10 * DigitsVal(SubSeq(s, 1, Len(s) - 1)) + DigitVal(s[Len(s)])

\* int(s), for s with IsIntLiteral(s)
ParseInt(s) == IF Head(s) = "-" THEN 0 - DigitsVal(Tail(s)) ELSE DigitsVal(s)

\* str(n) for an integer n
RECURSIVE NatStr(_)
NatStr(n) ==
  IF n < 10 THEN <<Digits[n + 1]>> ELSE NatStr(n \div 10) \o <<Digits[(n % 10) + 1]>>

IntStr(n) == IF n < 0 THEN <<"-">> \o NatStr(0 - n) ELSE NatStr(n)

(***************************************************************************)
(* Python values                                                           *)
(***************************************************************************)

PyNone == [t |-> "None"]

PyInt(n) == [t |-> "int", v |-> n]

PyStr(s) == [t |-> "str", v |-> s]

PyBool(b) == [t |-> "bool", v |-> b]

\* float("inf")
PyInf == [t |-> "float", v |-> "inf"]

PyTuple(xs) == [t |-> "tuple", v |-> xs]

\* isinstance(x, int): bool is a subclass of int
IsInt(x) == x.t \in {"int", "bool"}

\* isinstance(x, str)
IsStr(x) == x.t = "str"

\* The truth value of an optional string: None and "" are falsy.
Truthy(x) == x.t = "str" /\ x.v # <<>>

\* x < y, for the pairs of types the sort keys compare.
RECURSIVE PyLess(_, _)
PyLess(x, y) ==
  CASE x.t = "int" /\ y.t = "int" -> x.v < y.v
    [] x.t = "int" /\ y.t = "float" -> TRUE
    [] x.t = "float" /\ y.t = "int" -> FALSE
    [] x.t = "float" /\ y.t = "float" -> FALSE
    [] x.t = "str" /\ y.t = "str" -> StrLess(x.v, y.v)
    [] x.t = "tuple" /\ y.t = "tuple" ->
         LET n == IF Len(x.v) < Len(y.v) THEN Len(x.v) ELSE Len(y.v)
             diff == {i \in 1..n : x.v[i] # y.v[i]}
         IN IF diff = {} THEN Len(x.v) < Len(y.v)
            ELSE LET k == CHOOSE i \in diff : \A j \in diff : i <= j
                 IN PyLess(x.v[k], y.v[k])

(***************************************************************************)
(* The sort engine                                                         *)
(***************************************************************************)

F_branch == <<"b", "r", "a", "n", "c", "h">>

F_pr == <<"p", "r">>

F_ahead == <<"a", "h", "e", "a", "d">>

F_behind == <<"b", "e", "h", "i", "n", "d">>

F_ours == <<"o", "u", "r", "s">>

SORT_FIELDS == {F_branch, F_pr, F_ahead, F_behind, F_ours}

\* One part of the sort string: <<field, desc>>.
SortPart(part) ==
  LET p == Strip(part)
      desc == StartsWith(p, <<"-">>)
  IN <<IF desc THEN Tail(p) ELSE p, desc>>

\* parse_sort: ok is FALSE where the code raises ValueError.
parse_sort(sort_str) ==
  LET parts == SplitOn(sort_str, ",")
      spec == [i \in 1..Len(parts) |-> SortPart(parts[i])]
  IN [ok |-> \A i \in 1..Len(spec) : spec[i][1] \in SORT_FIELDS, spec |-> spec]

\* The rank of an ours value: {True: 2, False: 1, None: 0}.get(val, 0)
OursRank(val) ==
  IF val = PyBool(TRUE) THEN 2 ELSE IF val = PyBool(FALSE) THEN 1 ELSE 0

\* UnknownCount without the infinity of the ascending direction.
UnknownCountMinusOne(desc) == PyInt(0 - 1)

\* The value an unknown ahead/behind count sorts as.
UnknownCount(desc) == IF desc THEN PyInt(0 - 1) ELSE PyInf

\* How a string is keyed under a descending field.
DescStr(val) == PyTuple(<<PyInt(1), val>>)

\* field_val of make_sort_key.sort_key
field_val(row, field, desc) ==
  LET val0 == row[field]
      val == IF field \in {F_ahead, F_behind} /\ ~IsInt(val0)
             THEN UnknownCount(desc) ELSE val0
  IN IF field = F_ours
     THEN PyInt(IF desc THEN 0 - OursRank(val) ELSE OursRank(val))
     ELSE IF desc
     THEN (IF IsInt(val) THEN PyInt(0 - val.v) ELSE DescStr(val))
     ELSE (IF IsStr(val) THEN PyTuple(<<PyInt(0), val>>) ELSE val)

\* sort_key keyed by the first field of the spec alone.
sort_key_first_only(sort_spec, row) ==
  PyTuple(<<field_val(row, sort_spec[1][1], sort_spec[1][2])>>)

\* sort_key of make_sort_key
sort_key(sort_spec, row) ==
  PyTuple([i \in 1..Len(sort_spec) |->
             field_val(row, sort_spec[i][1], sort_spec[i][2])])

\* One step of a stable sort: x goes after every element whose key is not
\* greater than its own.
RECURSIVE InsertByKey(_, _, _)
InsertByKey(sorted, x, sort_spec) ==
  IF sorted = <<>> THEN <<x>>
  ELSE LET last == sorted[Len(sorted)] IN
       IF PyLess(sort_key(sort_spec, x), sort_key(sort_spec, last))
       THEN InsertByKey(SubSeq(sorted, 1, Len(sorted) - 1), x, sort_spec)
              \o <<last>>
       ELSE sorted \o <<x>>

\* list.sort(key=...): a stable sort by the key.
RECURSIVE SortRows(_, _)
SortRows(rs, sort_spec) ==
  IF rs = <<>> THEN <<>>
  ELSE InsertByKey(SortRows(SubSeq(rs, 1, Len(rs) - 1), sort_spec),
                   rs[Len(rs)], sort_spec)

(***************************************************************************)
(* Dicts, in insertion order                                               *)
(***************************************************************************)

DictKeys(d) == {d[i][1] : i \in 1..Len(d)}

\* d.get(k, default)
DictGet(d, k, default) ==
  IF k \in DictKeys(d)
  THEN d[CHOOSE i \in 1..Len(d) : d[i][1] = k][2]
  ELSE default

\* d[k] = v: a new key goes last, an old key keeps its place.
DictSet(d, k, v) ==
  IF k \in DictKeys(d)
  THEN [i \in 1..Len(d) |-> IF d[i][1] = k THEN <<k, v>> ELSE d[i]]
  ELSE Append(d, <<k, v>>)

\* {k: v for k, v in pairs}
RECURSIVE DictOf(_)
DictOf(pairs) ==
  IF pairs = <<>> THEN <<>>
  ELSE DictSet(DictOf(SubSeq(pairs, 1, Len(pairs) - 1)),
               pairs[Len(pairs)][1], pairs[Len(pairs)][2])

(***************************************************************************)
(* The inputs: the command line and what the remote answers                *)
(***************************************************************************)

S_main == <<"m", "a", "i", "n">>

S_master == <<"m", "a", "s", "t", "e", "r">>

S_a == <<"a">>

S_b == <<"b">>

S_repo == <<"o", "/", "r">>

S_sha == <<"c", "0">>

S_q == <<"?">>

S_dash == <<"-">>

\* The longest branch listing the remote returns.
MaxListLen == 3

\* The branch names the remote may list.
NamePool == {S_main, S_master, S_a, S_b}

\* The lists of at most n distinct names of a set.
RECURSIVE ListsUpTo(_, _)
ListsUpTo(names, n) ==
  IF n = 0 THEN {<<>>}
  ELSE LET shorter == ListsUpTo(names, n - 1) IN
       shorter \cup
         {Append(p[1], p[2]) : p \in
            {q \in shorter \X names :
               Len(q[1]) = n - 1 /\ \A i \in 1..Len(q[1]) : q[1][i] # q[2]}}

\* The branch listings: the names of a repository are distinct.
BranchListings == ListsUpTo(NamePool, MaxListLen)

\* The values of the --sort option.
SortArgs ==
  { F_branch,
    <<"b", "o", "g", "u", "s">>,
    S_dash \o F_ahead,
    S_dash \o F_behind \o <<",">> \o F_branch }

\* The values of the optional string options.
RepoArgs == {PyNone, PyStr(<<>>), PyStr(S_repo)}

FilterArgs == {PyNone, PyStr(S_a)}

SinceArgs == {PyNone, PyStr(<<>>), PyStr(S_sha)}

\* A failed gh call (non-zero exit), and a successful one with its stdout.
GhFail == [rc |-> 1]

GhOk(out) == [rc |-> 0, out |-> out]

\* gh repo view
RepoViewOutcomes == {GhFail, GhOk(S_repo)}

\* gh pr list, its JSON parsed: a list of (headRefName, state).
PrListOutcomes ==
  { GhFail,
    GhOk(<<>>),
    GhOk(<< <<S_a, <<"C", "L", "O", "S", "E", "D">> >>,
            <<S_b, <<"M", "E", "R", "G", "E", "D">> >>,
            <<S_a, <<"O", "P", "E", "N">> >> >>) }

\* gh api .../branches, its stdout split into lines.
BranchesOutcomes == {GhFail} \cup {GhOk(l) : l \in BranchListings}

\* gh api .../compare/main...branch --jq "\(.ahead_by) \(.behind_by)"
CompareOutcomes ==
  { GhFail,
    GhOk(<<"1", " ", "0">>),
    GhOk(<<"0", " ", "1">>),
    GhOk(<<"n", "u", "l", "l", " ", "n", "u", "l", "l">>),
    GhOk(<<"1">>) }

\* gh api .../compare/commit...branch --jq .status
StatusOutcomes ==
  { GhFail,
    GhOk(<<"a", "h", "e", "a", "d">>),
    GhOk(<<"i", "d", "e", "n", "t", "i", "c", "a", "l">>),
    GhOk(<<"b", "e", "h", "i", "n", "d">>),
    GhOk(<<"d", "i", "v", "e", "r", "g", "e", "d">>) }

(***************************************************************************)
(* The functions of the pipeline                                           *)
(***************************************************************************)

\* ThreadPoolExecutor(max_workers=10)
max_workers == 10

SeqToSet(s) == {s[i] : i \in 1..Len(s)}

RECURSIVE FilterSeq(_, _)
FilterSeq(s, drop) ==
  IF s = <<>> THEN <<>>
  ELSE IF Head(s) = drop THEN FilterSeq(Tail(s), drop)
  ELSE <<Head(s)>> \o FilterSeq(Tail(s), drop)

\* find_main_branch falling back to the first listed branch.
find_main_branch_fallback(names) ==
  IF S_main \in SeqToSet(names) THEN [ok |-> TRUE, name |-> S_main]
  ELSE IF S_master \in SeqToSet(names) THEN [ok |-> TRUE, name |-> S_master]
  ELSE IF names # <<>> THEN [ok |-> TRUE, name |-> names[1]]
  ELSE [ok |-> FALSE]

\* find_main_branch: ok is FALSE where the code raises RuntimeError.
find_main_branch(names) ==
  IF S_main \in SeqToSet(names) THEN [ok |-> TRUE, name |-> S_main]
  ELSE IF S_master \in SeqToSet(names) THEN [ok |-> TRUE, name |-> S_master]
  ELSE [ok |-> FALSE]

\* Candidates without the exclusion of the main branch.
CandidatesKeepAll(names, main) == names

\* The candidates of get_branch_names: every listed name but the main branch.
Candidates(names, main) == FilterSeq(names, main)

\* get_pr_statuses: the dict comprehension over the parsed list.
get_pr_statuses(prs) ==
  DictOf([i \in 1..Len(prs) |-> <<prs[i][1], PyStr(Lower(prs[i][2]))>>])

\* get_comparison defaulting to zero counts where the call failed.
get_comparison_zero(branch, outcome) ==
  IF outcome.rc # 0 THEN <<branch, PyInt(0), PyInt(0)>>
  ELSE LET parts == SplitWs(outcome.out) IN
       IF Len(parts) = 2 /\ IsIntLiteral(parts[1]) /\ IsIntLiteral(parts[2])
       THEN <<branch, PyInt(ParseInt(parts[1])), PyInt(ParseInt(parts[2]))>>
       ELSE <<branch, PyStr(S_q), PyStr(S_q)>>

\* get_comparison: (branch, ahead, behind) of one branch; every exception
\* (gh failing, a wrong number of parts, int() failing) gives "?" twice.
get_comparison(branch, outcome) ==
  IF outcome.rc # 0 THEN <<branch, PyStr(S_q), PyStr(S_q)>>
  ELSE LET parts == SplitWs(outcome.out) IN
       IF Len(parts) = 2 /\ IsIntLiteral(parts[1]) /\ IsIntLiteral(parts[2])
       THEN <<branch, PyInt(ParseInt(parts[1])), PyInt(ParseInt(parts[2]))>>
       ELSE <<branch, PyStr(S_q), PyStr(S_q)>>

\* is_ancestor: (branch, whether the commit is contained in the branch)
is_ancestor(branch, outcome) ==
  IF outcome.rc # 0 THEN <<branch, PyBool(FALSE)>>
  ELSE <<branch,
         PyBool(outcome.out \in
                  { <<"a", "h", "e", "a", "d">>,
                    <<"i", "d", "e", "n", "t", "i", "c", "a", "l">> })>>

\* A pool without a limit on its workers.
WorkerAlwaysIdle(running) == TRUE

\* Whether the pool has a worker free to take a task.
WorkerIdle(running) == Cardinality(running) < max_workers

\* The results in the order in which the workers finished (as_completed).
PoolMapAsCompleted(finished, n) == [j \in 1..n |-> finished[j][2]]

\* pool.map: the results in the order of the tasks, whatever the order in
\* which the workers finished. finished is the sequence of <<task, result>>
\* in completion order.
PoolMap(finished, n) ==
  [i \in 1..n |-> finished[CHOOSE j \in 1..Len(finished) : finished[j][1] = i][2]]

\* build_rows
RECURSIVE build_rows(_, _, _, _)
build_rows(brs, prs, anc, filter_str) ==
  IF brs = <<>> THEN <<>>
  ELSE LET name == Head(brs)[1]
           pair == Head(brs)[2]
           rest == build_rows(Tail(brs), prs, anc, filter_str)
           row == (F_branch :> PyStr(name))
                  @@ (F_pr :> DictGet(prs, name, PyStr(S_dash)))
                  @@ (F_ahead :> pair[1])
                  @@ (F_behind :> pair[2])
                  @@ (F_ours :> IF anc.t = "dict" /\ anc.v # <<>>
                                THEN DictGet(anc.v, name, PyNone) ELSE PyNone)
       IN IF Truthy(filter_str) /\ ~Contains(name, filter_str.v)
          THEN rest ELSE <<row>> \o rest

\* str() of an ahead/behind value
CountStr(x) == IF x.t = "int" THEN IntStr(x.v) ELSE x.v

\* The Ours cell of a row
OursCell(ours) ==
  IF ours = PyBool(TRUE)
  THEN <<"[", "g", "r", "e", "e", "n", "]", "y", "e", "s", "[", "/", "]">>
  ELSE IF ours = PyBool(FALSE)
  THEN <<"[", "d", "i", "m", "]", "n", "o", "[", "/", "]">>
  ELSE S_dash

\* print_table: the table handed to the console.
print_table(rs, main, show_ours) ==
  [ main |-> main,
    columns |-> <<"Branch", "PR", "Ahead", "Behind">>
                  \o (IF show_ours THEN <<"Ours">> ELSE <<>>),
    lines |-> [i \in 1..Len(rs) |->
                 << rs[i][F_branch].v, rs[i][F_pr].v,
                    CountStr(rs[i][F_ahead]), CountStr(rs[i][F_behind]) >>
                 \o (IF show_ours THEN <<OursCell(rs[i][F_ours])>> ELSE <<>>)] ]

(***************************************************************************)
(* The state                                                               *)
(***************************************************************************)

VARIABLES
  argv,          \* the command line: repo, sort, filter, since
  pc,            \* where main() is
  error,         \* the exception that ended the run, "" if none
  repo,          \* the repository
  pr_statuses,   \* dict: branch name -> PR state
  main_branch,   \* the main branch
  branch_names,  \* the candidates, in listing order
  started,       \* the tasks of the current pool a worker has taken
  inflight,      \* the tasks of the current pool whose gh call is running
  finished,      \* <<task, result>> of the current pool, in completion order
  last,          \* history: the task that finished last and what gh answered
  branches,      \* dict: branch name -> (ahead, behind)
  ancestry,      \* None, or dict: branch name -> bool
  rows,          \* the rows
  table,         \* what print_table printed, None before
  calls          \* history: the per-branch gh calls issued, by kind

vars == << argv, pc, error, repo, pr_statuses, main_branch, branch_names,
           started, inflight, finished, last, branches, ancestry, rows, table,
           calls >>

data == << pr_statuses, main_branch, branch_names, branches, ancestry, rows,
           table >>

pool == << started, inflight, finished, last >>

PyDict(d) == [t |-> "dict", v |-> d]

InitState ==
  /\ pc = "start"
  /\ error = ""
  /\ repo = PyNone
  /\ pr_statuses = <<>>
  /\ main_branch = PyNone
  /\ branch_names = <<>>
  /\ started = 0
  /\ inflight = {}
  /\ finished = <<>>
  /\ last = PyNone
  /\ branches = <<>>
  /\ ancestry = PyNone
  /\ rows = <<>>
  /\ table = PyNone
  /\ calls = [compare |-> 0, ancestry |-> 0]

Init ==
  /\ argv \in [repo : RepoArgs, sort : SortArgs, filter : FilterArgs,
               since : SinceArgs]
  /\ InitState

\* An exception leaves main().
Raise(e) ==
  /\ pc' = "error"
  /\ error' = e

(***************************************************************************)
(* main(), step by step                                                    *)
(***************************************************************************)

\* Lines 212-217: the repository, from the argument or from gh repo view.
ResolveRepo(view) ==
  /\ pc = "start"
  /\ LET r == IF argv.repo = PyNone
              THEN (IF view.rc = 0 THEN PyStr(view.out) ELSE PyStr(<<>>))
              ELSE argv.repo
     IN /\ repo' = r
        /\ IF Truthy(r)
           THEN pc' = "pr_statuses" /\ error' = error
           ELSE Raise("SystemExit")
  /\ UNCHANGED << argv, data, pool, calls >>

\* Line 219
GetPrStatuses(outcome) ==
  /\ pc = "pr_statuses"
  /\ IF outcome.rc # 0
     THEN Raise("RuntimeError") /\ UNCHANGED pr_statuses
     ELSE /\ pr_statuses' = get_pr_statuses(outcome.out)
          /\ pc' = "branch_names"
          /\ error' = error
  /\ UNCHANGED << argv, repo, main_branch, branch_names, pool, branches,
                  ancestry, rows, table, calls >>

\* Line 220: get_branch_names. The comparison pool is entered next.
GetBranchNames(outcome) ==
  /\ pc = "branch_names"
  /\ IF outcome.rc # 0
     THEN Raise("RuntimeError") /\ UNCHANGED << main_branch, branch_names >>
     ELSE LET m == find_main_branch(outcome.out) IN
          IF ~m.ok
          THEN Raise("RuntimeError") /\ UNCHANGED << main_branch, branch_names >>
          ELSE /\ main_branch' = PyStr(m.name)
               /\ branch_names' = Candidates(outcome.out, m.name)
               /\ pc' = "comparisons"
               /\ error' = error
  /\ UNCHANGED << argv, repo, pr_statuses, pool, branches, ancestry, rows,
                  table, calls >>

\* A worker of the pool takes the next task of the queue and issues its call.
StartTask(phase) ==
  /\ pc = phase
  /\ started < Len(branch_names)
  /\ WorkerIdle(inflight)
  /\ started' = started + 1
  /\ inflight' = inflight \cup {started + 1}
  /\ calls' = IF phase = "comparisons"
              THEN [calls EXCEPT !.compare = @ + 1]
              ELSE [calls EXCEPT !.ancestry = @ + 1]
  /\ UNCHANGED << argv, pc, error, repo, data, finished, last >>

\* The call of a comparison task returns: one of the tasks in ready, with one
\* of the outcomes.
FinishComparison(outcomes, ready) ==
  /\ pc = "comparisons"
  /\ \E i \in inflight \cap ready, o \in outcomes :
       /\ inflight' = inflight \ {i}
       /\ finished' = Append(finished, <<i, get_comparison(branch_names[i], o)>>)
       /\ last' = [task |-> i, outcome |-> o]
  /\ UNCHANGED << argv, pc, error, repo, data, started, calls >>

\* Lines 70-74 and 222: the pool is left once every task is done; the
\* ancestry pool is entered if --since is truthy.
JoinComparisons ==
  /\ pc = "comparisons"
  /\ Len(finished) = Len(branch_names)
  /\ LET res == PoolMap(finished, Len(branch_names)) IN
     branches' = DictOf([i \in 1..Len(res) |->
                           <<res[i][1], <<res[i][2], res[i][3]>> >>])
  /\ started' = 0
  /\ inflight' = {}
  /\ finished' = <<>>
  /\ last' = PyNone
  /\ IF Truthy(argv.since)
     THEN pc' = "ancestry" /\ ancestry' = ancestry
     ELSE pc' = "build_rows" /\ ancestry' = PyNone
  /\ UNCHANGED << argv, error, repo, pr_statuses, main_branch, branch_names,
                  rows, table, calls >>

\* The call of an ancestry task returns.
FinishAncestry(outcomes, ready) ==
  /\ pc = "ancestry"
  /\ \E i \in inflight \cap ready, o \in outcomes :
       /\ inflight' = inflight \ {i}
       /\ finished' = Append(finished, <<i, is_ancestor(branch_names[i], o)>>)
       /\ last' = [task |-> i, outcome |-> o]
  /\ UNCHANGED << argv, pc, error, repo, data, started, calls >>

\* Lines 93-94
JoinAncestry ==
  /\ pc = "ancestry"
  /\ Len(finished) = Len(branch_names)
  /\ ancestry' = PyDict(DictOf(PoolMap(finished, Len(branch_names))))
  /\ started' = 0
  /\ inflight' = {}
  /\ finished' = <<>>
  /\ last' = PyNone
  /\ pc' = "build_rows"
  /\ UNCHANGED << argv, error, repo, pr_statuses, main_branch, branch_names,
                  branches, rows, table, calls >>

\* Line 223
BuildRows ==
  /\ pc = "build_rows"
  /\ rows' = build_rows(branches, pr_statuses, ancestry, argv.filter)
  /\ pc' = "sort"
  /\ UNCHANGED << argv, error, repo, pr_statuses, main_branch, branch_names,
                  pool, branches, ancestry, table, calls >>

\* Sort with the sort spec validated before the fetches.
SortValidatedFirst ==
  \/ /\ pc = "pr_statuses"
     /\ ~parse_sort(argv.sort).ok
     /\ Raise("ValueError")
     /\ UNCHANGED << argv, repo, data, pool, calls >>
  \/ /\ pc = "sort"
     /\ parse_sort(argv.sort).ok
     /\ rows' = SortRows(rows, parse_sort(argv.sort).spec)
     /\ pc' = "print_table"
     /\ UNCHANGED << argv, error, repo, pr_statuses, main_branch, branch_names,
                     pool, branches, ancestry, table, calls >>

\* Line 224
Sort ==
  /\ pc = "sort"
  /\ LET p == parse_sort(argv.sort) IN
     IF p.ok
     THEN /\ rows' = SortRows(rows, p.spec)
          /\ pc' = "print_table"
          /\ error' = error
     ELSE Raise("ValueError") /\ UNCHANGED rows
  /\ UNCHANGED << argv, repo, pr_statuses, main_branch, branch_names, pool,
                  branches, ancestry, table, calls >>

\* Line 225
PrintTable ==
  /\ pc = "print_table"
  /\ table' = print_table(rows, main_branch.v, argv.since # PyNone)
  /\ pc' = "done"
  /\ UNCHANGED << argv, error, repo, pr_statuses, main_branch, branch_names,
                  pool, branches, ancestry, rows, calls >>

Next ==
  \/ \E view \in RepoViewOutcomes : ResolveRepo(view)
  \/ \E o \in PrListOutcomes : GetPrStatuses(o)
  \/ \E o \in BranchesOutcomes : GetBranchNames(o)
  \/ StartTask("comparisons")
  \/ FinishComparison(CompareOutcomes, inflight)
  \/ JoinComparisons
  \/ StartTask("ancestry")
  \/ FinishAncestry(StatusOutcomes, inflight)
  \/ JoinAncestry
  \/ BuildRows
  \/ Sort
  \/ PrintTable

Spec == Init /\ [][Next]_vars

(***************************************************************************)
(* The sort engine on its own: main() at line 224, with the rows that      *)
(* lines 219-223 built from what the remote answered.                      *)
(***************************************************************************)

\* The largest ahead + behind of a branch.
MaxCount == 1

S_ab == <<"a", "b">>

\* The candidates of the sorted listings.
SortNames == {S_a, S_ab, S_b}

SortListings == ListsUpTo(SortNames, Cardinality(SortNames))

\* What get_comparison returned for a branch: two counts, or "?" twice.
CountResults ==
  {<<PyInt(a), PyInt(b)>> : <<a, b>> \in
     {c \in (0..MaxCount) \X (0..MaxCount) : c[1] + c[2] <= MaxCount}}
  \cup {<<PyStr(S_q), PyStr(S_q)>>}

\* Every field, ascending and descending, and the two-field spec of the
\* specification's example.
SortArgsAll ==
  SORT_FIELDS \cup {S_dash \o f : f \in SORT_FIELDS}
  \cup {S_dash \o F_behind \o <<",">> \o F_branch}

\* The PR listing of the sorted runs: a is open (after a closed PR), b is
\* merged, ab has no PR.
SortPrs ==
  << <<S_a, <<"C", "L", "O", "S", "E", "D">> >>,
     <<S_b, <<"M", "E", "R", "G", "E", "D">> >>,
     <<S_a, <<"O", "P", "E", "N">> >> >>

SortPrStatuses == get_pr_statuses(SortPrs)

InitSort ==
  \E names \in SortListings, since \in {PyNone, PyStr(S_sha)} :
    \E counts \in [1..Len(names) -> CountResults],
       ours \in [1..Len(names) -> IF since = PyNone THEN {FALSE} ELSE BOOLEAN] :
      /\ argv \in [repo : {PyStr(S_repo)}, sort : SortArgsAll,
                   filter : {PyNone}, since : {since}]
      /\ pc = "sort"
      /\ error = ""
      /\ repo = PyStr(S_repo)
      /\ pr_statuses = SortPrStatuses
      /\ main_branch = PyStr(S_main)
      /\ branch_names = names
      /\ started = 0
      /\ inflight = {}
      /\ finished = <<>>
      /\ last = PyNone
      /\ branches = [i \in 1..Len(names) |-> <<names[i], counts[i]>>]
      /\ ancestry = IF since = PyNone THEN PyNone
                    ELSE PyDict([i \in 1..Len(names) |->
                                   <<names[i], PyBool(ours[i])>>])
      /\ rows = build_rows(branches, pr_statuses, ancestry, PyNone)
      /\ table = PyNone
      /\ calls = [compare |-> Len(names),
                  ancestry |-> IF since = PyNone THEN 0 ELSE Len(names)]

NextSort ==
  \/ Sort
  \/ PrintTable

SpecSort == InitSort /\ [][NextSort]_vars

(***************************************************************************)
(* The pools under load: more candidates than workers, every call          *)
(* succeeding, and the calls returning in the order they were issued.      *)
(***************************************************************************)

\* The number of candidates of the loaded run.
PoolSize == 11

PoolListing == <<S_main>> \o [i \in 1..PoolSize |-> <<"t">> \o NatStr(i)]

Oldest(tasks) == {i \in tasks : \A j \in tasks : i <= j}

InitPool ==
  /\ argv \in [repo : {PyNone}, sort : {F_branch}, filter : {PyNone},
               since : {PyStr(S_sha)}]
  /\ InitState

NextPool ==
  \/ ResolveRepo(GhOk(S_repo))
  \/ GetPrStatuses(GhOk(SortPrs))
  \/ GetBranchNames(GhOk(PoolListing))
  \/ StartTask("comparisons")
  \/ FinishComparison({GhOk(<<"1", " ", "0">>)}, Oldest(inflight))
  \/ JoinComparisons
  \/ StartTask("ancestry")
  \/ FinishAncestry({GhOk(<<"a", "h", "e", "a", "d">>)}, Oldest(inflight))
  \/ JoinAncestry
  \/ BuildRows
  \/ Sort
  \/ PrintTable

SpecPool == InitPool /\ [][NextPool]_vars

(***************************************************************************)
(* The properties                                                          *)
(***************************************************************************)

\* The place of a candidate in the listing.
Pos(name) == CHOOSE i \in 1..Len(branch_names) : branch_names[i] = name

Sorted == pc \in {"print_table", "done"}

SortSpec == parse_sort(argv.sort).spec

RowName(i) == rows[i][F_branch].v

Unknown == PyStr(S_q)

\* A comparison call that failed: a non-zero exit, or an output that is not
\* two integers.
CompareFailed(o) ==
  \/ o.rc # 0
  \/ Len(SplitWs(o.out)) # 2
  \/ \E k \in 1..Len(SplitWs(o.out)) : ~IsIntLiteral(SplitWs(o.out)[k])

\* C1: the main branch is "main" if it is listed and "master" otherwise, it
\* is no candidate for comparison, and it is the branch of no row of the
\* output.
C1_MainBranchExcluded ==
  main_branch # PyNone =>
    /\ main_branch.v \in {S_main, S_master}
    /\ main_branch.v = S_master => S_main \notin SeqToSet(branch_names)
    /\ main_branch.v \notin SeqToSet(branch_names)
    /\ main_branch.v \notin DictKeys(branches)
    /\ ancestry # PyNone => main_branch.v \notin DictKeys(ancestry.v)
    /\ \A i \in 1..Len(rows) : RowName(i) # main_branch.v
    /\ table # PyNone =>
         \A i \in 1..Len(table.lines) : table.lines[i][1] # main_branch.v

\* A table with rows is printed under a filter that the main branch's own
\* name matches.
C1_Witness ==
  /\ pc = "done"
  /\ Len(table.lines) >= 1
  /\ Truthy(argv.filter)
  /\ Contains(main_branch.v, argv.filter.v)

\* C2, one step: a finishing task adds its own entry and leaves the others
\* alone, a failed call gives ("?", "?") (False for ancestry); leaving a pool
\* gives a mapping with exactly the entry of every candidate, as the tasks
\* returned it, and never an exception.
C2_Step ==
  /\ (pc = "comparisons" /\ finished' # finished /\ pc' = "comparisons") =>
       LET e == finished'[Len(finished')] IN
       /\ finished' = Append(finished, e)
       /\ e[1] = last'.task
       /\ e[2][1] = branch_names[e[1]]
       /\ IF CompareFailed(last'.outcome)
          THEN e[2][2] = Unknown /\ e[2][3] = Unknown
          ELSE e[2][2].t = "int" /\ e[2][3].t = "int"
  /\ (pc = "ancestry" /\ finished' # finished /\ pc' = "ancestry") =>
       LET e == finished'[Len(finished')] IN
       /\ finished' = Append(finished, e)
       /\ e[1] = last'.task
       /\ e[2][1] = branch_names[e[1]]
       /\ e[2][2].t = "bool"
       /\ last'.outcome.rc # 0 => e[2][2] = PyBool(FALSE)
  /\ (pc = "comparisons" /\ pc' # "comparisons") =>
       /\ pc' \in {"ancestry", "build_rows"}
       /\ error' = ""
       /\ Len(branches') = Len(branch_names)
       /\ \A j \in 1..Len(finished) :
            LET i == finished[j][1] IN
            branches'[i] = <<branch_names[i], <<finished[j][2][2], finished[j][2][3]>> >>
  /\ (pc = "ancestry" /\ pc' # "ancestry") =>
       /\ pc' = "build_rows"
       /\ error' = ""
       /\ Len(ancestry'.v) = Len(branch_names)
       /\ \A j \in 1..Len(finished) :
            LET i == finished[j][1] IN
            ancestry'.v[i] = <<branch_names[i], finished[j][2][2]>>

\* C2: per-item failure isolation in both fan-outs.
C2_FailureIsolation == [][C2_Step]_vars

\* Both fan-outs are done, over a failed and a succeeded comparison.
C2_Witness ==
  /\ pc = "build_rows"
  /\ ancestry # PyNone
  /\ \E i, j \in 1..Len(branches) :
       branches[i][2][1] = Unknown /\ branches[j][2][1].t = "int"

\* C3 as stated: with an unknown sort field no comparison call and no
\* ancestry call is ever issued.
C3_ErrorBeforeComparisons ==
  ~parse_sort(argv.sort).ok => calls.compare = 0 /\ calls.ancestry = 0

\* C3 as amended: the unknown sort field is reported at the sort step only,
\* after every comparison call and (with a non-empty --since) every ancestry
\* call has completed, and the table is never printed.
C3_ErrorAfterFetch ==
  /\ error = "ValueError" =>
       /\ ~parse_sort(argv.sort).ok
       /\ main_branch # PyNone
       /\ inflight = {}
       /\ calls.compare = Len(branch_names)
       /\ Len(branches) = Len(branch_names)
       /\ Truthy(argv.since) =>
            calls.ancestry = Len(branch_names) /\ ancestry # PyNone
       /\ table = PyNone
  /\ ~parse_sort(argv.sort).ok => pc \notin {"print_table", "done"}

\* The unknown sort field is reported after comparison and ancestry calls.
C3_Witness ==
  /\ error = "ValueError"
  /\ calls.compare >= 2
  /\ calls.ancestry >= 2

\* Whether a row's value of a field is known.
Known(f, row) ==
  IF f \in {F_ahead, F_behind} THEN row[f].t = "int"
  ELSE IF f = F_ours THEN row[f].t = "bool"
  ELSE TRUE

\* x > y for two known values of one field.
Greater(x, y) ==
  CASE x.t = "int" -> x.v > y.v
    [] x.t = "bool" -> x.v /\ ~y.v
    [] x.t = "str" -> StrLess(y.v, x.v)

\* C4: under the single-field spec "-f", of two rows with known and different
\* values of f the one with the larger value comes first.
C4_DescendingOrder ==
  (Sorted /\ Len(SortSpec) = 1 /\ SortSpec[1][2]) =>
    LET f == SortSpec[1][1] IN
    \A i, j \in 1..Len(rows) :
      (i < j /\ Known(f, rows[i]) /\ Known(f, rows[j])
             /\ rows[i][f] # rows[j][f]) =>
        Greater(rows[i][f], rows[j][f])

\* C5: sorted by ahead or behind, ascending or descending, no row with an
\* unknown value comes before a row with a known value.
C5_UnknownLast ==
  (Sorted /\ SortSpec[1][1] \in {F_ahead, F_behind}) =>
    LET f == SortSpec[1][1] IN
    \A i, j \in 1..Len(rows) :
      i < j => ~(rows[i][f].t # "int" /\ rows[j][f].t = "int")

\* Sorted by behind descending, a row with an unknown count that was listed
\* before a row with a known count comes after it.
C5_Witness ==
  /\ pc = "done"
  /\ SortSpec = << <<F_behind, TRUE>> >>
  /\ \E i, j \in 1..Len(rows) :
       /\ i < j
       /\ rows[i][F_behind].t = "int"
       /\ rows[j][F_behind] = Unknown
       /\ Pos(RowName(j)) < Pos(RowName(i))

\* C6: with --since supplied the table has the Ours column, one ancestry
\* call was made per candidate and every row's ours is a boolean; without
\* it there is no ancestry call and no Ours column.
C6_OursWithSince ==
  /\ argv.since = PyNone => calls.ancestry = 0
  /\ pc = "done" =>
       IF argv.since # PyNone
       THEN /\ "Ours" \in SeqToSet(table.columns)
            /\ calls.ancestry = Len(branch_names)
            /\ \A i \in 1..Len(rows) : rows[i][F_ours].t = "bool"
       ELSE "Ours" \notin SeqToSet(table.columns)

\* C7: under "-behind,branch" two rows with the same behind value (both
\* unknown included) are in ascending order of branch name, and two rows
\* with different behind values are ordered by behind alone: the larger
\* count first, the unknown last.
C7_TieBreak ==
  (Sorted /\ SortSpec = << <<F_behind, TRUE>>, <<F_branch, FALSE>> >>) =>
    \A i, j \in 1..Len(rows) :
      i < j =>
        LET x == rows[i][F_behind]
            y == rows[j][F_behind]
        IN IF x = y THEN StrLess(RowName(i), RowName(j))
           ELSE x.t = "int" /\ (y.t = "int" => x.v > y.v)

\* Three rows under "-behind,branch": a known count, then two unknown ones
\* that were listed in the opposite order.
C7_Witness ==
  /\ pc = "done"
  /\ SortSpec = << <<F_behind, TRUE>>, <<F_branch, FALSE>> >>
  /\ Len(rows) = 3
  /\ rows[1][F_behind].t = "int"
  /\ rows[2][F_behind] = Unknown
  /\ rows[3][F_behind] = Unknown
  /\ Pos(RowName(3)) < Pos(RowName(2))

\* C8: a run that hits a fatal condition stops with an error and prints no
\* table: print_table is reached only with the repository resolved, a main
\* branch found and the whole sort spec parsed.
C8_FatalStopsBeforeTable ==
  /\ (pc \in {"print_table", "done"} \/ table # PyNone) =>
       /\ error = ""
       /\ Truthy(repo)
       /\ main_branch # PyNone
       /\ main_branch.v \in {S_main, S_master}
       /\ \A i \in 1..Len(SortSpec) : SortSpec[i][1] \in SORT_FIELDS
  /\ error # "" <=> pc = "error"
  /\ pc = "error" => table = PyNone
  /\ (pc # "start" /\ ~Truthy(repo)) => error = "SystemExit"
  /\ (pc \notin {"start", "pr_statuses", "branch_names"} /\ main_branch = PyNone)
       => pc = "error"

\* The run got as far as the rows and stopped at the unknown sort field.
C8_Witness ==
  /\ pc = "error"
  /\ error = "ValueError"
  /\ Len(rows) >= 1
  /\ table = PyNone

\* C9: the rendered rows are the candidates that pass the filter, in the
\* order of their sort keys, and rows with equal keys are in the order of the
\* listing: nothing of the order in which the workers finished is left.
C9_OrderDetermined ==
  Sorted =>
    /\ {RowName(i) : i \in 1..Len(rows)} =
         {b \in SeqToSet(branch_names) :
            Truthy(argv.filter) => Contains(b, argv.filter.v)}
    /\ \A i, j \in 1..Len(rows) :
         i < j =>
           /\ ~PyLess(sort_key(SortSpec, rows[j]), sort_key(SortSpec, rows[i]))
           /\ sort_key(SortSpec, rows[i]) = sort_key(SortSpec, rows[j]) =>
                Pos(RowName(i)) < Pos(RowName(j))
    /\ pc = "done" =>
         /\ Len(table.lines) = Len(rows)
         /\ \A i \in 1..Len(rows) : table.lines[i][1] = RowName(i)

\* A table is printed in which two rows tie under the sort key.
C9_Witness ==
  /\ pc = "done"
  /\ \E i, j \in 1..Len(rows) :
       /\ i < j
       /\ sort_key(SortSpec, rows[i]) = sort_key(SortSpec, rows[j])

\* C10: at most 10 per-branch calls are in flight; a comparison call is
\* issued only after the PR list and the branch list were fetched, an
\* ancestry call only after every comparison call has completed.
C10_BoundedPhases ==
  /\ Cardinality(inflight) <= 10
  /\ inflight # {} => pc \in {"comparisons", "ancestry"}
  /\ calls.compare > 0 =>
       /\ pc \notin {"start", "pr_statuses", "branch_names"}
       /\ main_branch # PyNone
  /\ pc = "comparisons" => calls.ancestry = 0
  /\ calls.ancestry > 0 =>
       /\ calls.compare = Len(branch_names)
       /\ Len(branches) = Len(branch_names)
  /\ pc = "comparisons" => calls.compare = started

\* Ten ancestry calls are in flight and a task is waiting for a worker.
C10_Witness ==
  /\ pc = "ancestry"
  /\ Cardinality(inflight) = 10
  /\ started < Len(branch_names)

=============================================================================
